---- MODULE Spec2Model ----
(***************************************************************************)
(* A model of the Raspberry Pi home-system backend: the serial Talker, the  *)
(* PicoController with its recorded pin states, and the                     *)
(* ElectricityMonitorService loop that fetches day-ahead prices and         *)
(* switches the car-charging pins by a price threshold.                     *)
(*                                                                          *)
(* Python values are represented as follows.  An optional value is a       *)
(* sequence: None is <<>> and the value x is <<x>>.                         *)
(* A price in the store (EUR/MWh) is an integer number of hundredths of     *)
(* EUR/MWh; a price in cents/kWh is an integer number of hundredths of a    *)
(* cent.  A text is a sequence of one-character strings.  A moment of the   *)
(* Helsinki clock is <<day, hour, minute>>.                                 *)
(***************************************************************************)
EXTENDS Integers, Sequences, FiniteSets, TLC

VARIABLES
    status,        \* ElectricityMonitorServiceStatus of the monitor
    pin_states,    \* PicoController.pin_states
    serial_open,   \* per Talker: its serial port is open
    pc,            \* where the task _monitor_prices_task stands
    shutdown,      \* the application's lifespan has run its shutdown part
    now,           \* index into Clock: the current Helsinki time
    store,         \* rows of the table electricity_prices
    curve,         \* the prices the feed publishes, by time of day
    tick,          \* what the most recent step of the monitor loop did
    ctl,           \* what the most recent controller operation did
    retrying,      \* a daily fetch failed and none has succeeded since
    daily_ok,      \* successful daily fetches since the last midnight reset
    failed_price,  \* the price of the last control step, if that step raised
    table,         \* the table electricity_prices, row by row as inserted
    ingest,        \* what the most recent save_electricity_prices_to_db did
    link,          \* one Talker's serial line and its most recent call
    conv,          \* the most recent call of position_to_timestamp
    scan           \* the while loop of save_electricity_prices_to_db, pass by pass

vars == <<status, pin_states, serial_open, pc, shutdown, now, store, curve,
          tick, ctl, retrying, daily_ok, failed_price,
                   table, ingest, link, conv, scan>>

None == <<>>
Some(x) == <<x>>
NotFound == <<>>

(***************************************************************************)
(* Program constants and the bounds of the model.                          *)
(***************************************************************************)
NumPins == 8
NumTalkers == 2
CAR_CHARGE_THRESHOLD_C == 800
FINNISH_VAT_PERMILLE == 255
CHARGE_TALKER == 1
FETCH_HOUR == 14
RESET_MINUTES == 15

POSITIONS_PER_DAY == 96

MaxDay == 1
MaxDailyOk == 3
MaxPosition == 4
MaxRows == 1
MaxCmds == 3
MaxPoints == 6
MaxLen == 3

Devices == 1..NumTalkers
Pins == 1..NumPins

(***************************************************************************)
(* Texts.                                                                   *)
(***************************************************************************)
CR == "\r"
Whitespace == {" ", "\r", "\n", "\t", "\f"}
PROMPT == <<">", ">", ">", " ">>

RECURSIVE LStrip(_)
LStrip(s) ==
    IF s # <<>> /\ Head(s) \in Whitespace THEN LStrip(Tail(s)) ELSE s

RECURSIVE RStrip(_)
RStrip(s) ==
    IF s # <<>> /\ s[Len(s)] \in Whitespace
    THEN RStrip(SubSeq(s, 1, Len(s) - 1))
    ELSE s

\* str.strip()
Strip(s) == RStrip(LStrip(s))

IsPrefix(p, s) == Len(p) <= Len(s) /\ SubSeq(s, 1, Len(p)) = p

\* str.replace(old, ""), scanning left to right
RECURSIVE Remove(_, _)
Remove(s, old) ==
    IF s = <<>> THEN <<>>
    ELSE IF IsPrefix(old, s)
         THEN Remove(SubSeq(s, Len(old) + 1, Len(s)), old)
         ELSE <<Head(s)>> \o Remove(Tail(s), old)

(***************************************************************************)
(* Talker.  What the serial port delivers to one read is an input: rx is   *)
(* the bytes read_until returns, a line ending in the terminator, or, when *)
(* the read timeout expires first, whatever arrived until then.            *)
(***************************************************************************)
TalkerName(d) == <<"p", "i", "c", "o">> \o <<IF d = 1 THEN "1" ELSE "2">>

RxReply == <<"O", "K", CR>>
RxPrompted == PROMPT \o <<"O", "K", CR>>
RxPartial == <<"O">>
RxNothing == <<>>
RxLines == {RxReply, RxPrompted, RxPartial, RxNothing}

Terminated(line) == line # <<>> /\ line[Len(line)] = CR

\* Talker.receive_from_pico
ReceiveFromPico(d, line) == Strip(line) \o <<" ">> \o TalkerName(d)

\* The link of one operation: which write raises (failAt = 0: none;
\* failAt = k: the k-th write of the operation) and what every read gets.
\* The links the monitor loop is checked with: no write raises, the first
\* or the third one does; every read gets a reply, or none does.
MonitorEnvs == [failAt : {0, 1, 3}, line : {RxReply, RxNothing}]

\* serial.write raises on a closed port and on an I/O error.
WriteFails(open, d, nth, env) == ~open[d] \/ nth = env.failAt

\* The reply send_to_pico returns for each line read, prompt removed.
Replies ==
    [d \in 1..NumTalkers, line \in RxLines |->
        Remove(ReceiveFromPico(d, line), PROMPT)]

\* Talker.send_to_pico: [raised, reply]; the reply of a read that timed out
\* is what receive_from_pico makes of the partial or empty buffer.
SendToPico(open, d, nth, env) ==
    IF WriteFails(open, d, nth, env)
    THEN [raised |-> TRUE, reply |-> None]
    ELSE [raised |-> FALSE, reply |-> Replies[d, env.line]]

(***************************************************************************)
(* PicoController.  The running result of an operation is a record c:      *)
(* the pin_states, the commands written so far, and whether it raised.     *)
(***************************************************************************)
InitPinStates == [d \in Devices |-> [p \in Pins |-> FALSE]]

Cmd(d, fn, p) == [talker |-> d, fn |-> fn, pin |-> p]

\* failed is the command whose call raised; key_error is whether it raised
\* at the lookup self.talkers[talker_id].
Ctx(pins) ==
    [pins |-> pins, sent |-> <<>>, timed_out |-> FALSE, link_failed |-> FALSE,
     key_error |-> FALSE, failed |-> None, raised |-> FALSE]

\* A Python dict with int keys; a key is <<k>> for the int k and <<a, b>>
\* for the tuple (a, b).
DictKeys(dict) == {<<k>> : k \in DOMAIN dict}
DictGet(dict, key, default) ==
    IF key \in DictKeys(dict) THEN dict[key[1]] ELSE default

\* PicoController.get_pin_state
GetPinState(pins, d, p) == DictGet(pins, <<d, p>>, FALSE)

\* Mutant: the state is recorded before the command is sent.
SetPin_RecordFirst(open, c, d, p, fn, value, env) ==
    IF d \notin Devices
    THEN [c EXCEPT !.key_error = TRUE, !.raised = TRUE,
                   !.failed = Some(Cmd(d, fn, p))]
    ELSE
    LET r == SendToPico(open, d, Len(c.sent) + 1, env)
    IN  IF r.raised
        THEN [c EXCEPT !.pins[d][p] = value,
                       !.link_failed = TRUE, !.raised = TRUE,
                       !.failed = Some(Cmd(d, fn, p))]
        ELSE [c EXCEPT !.pins[d][p] = value,
                       !.sent = Append(@, Cmd(d, fn, p)),
                       !.timed_out = @ \/ ~Terminated(env.line)]

\* The body shared by turn_on_pin and turn_off_pin: look the talker up, send,
\* then record.  self.talkers[talker_id] raises KeyError for an id that is
\* not a key; the except branch logs and raises again.
SetPin(open, c, d, p, fn, value, env) ==
    IF d \notin Devices
    THEN [c EXCEPT !.key_error = TRUE, !.raised = TRUE,
                   !.failed = Some(Cmd(d, fn, p))]
    ELSE
    LET r == SendToPico(open, d, Len(c.sent) + 1, env)
    IN  IF r.raised
        THEN [c EXCEPT !.link_failed = TRUE, !.raised = TRUE,
                       !.failed = Some(Cmd(d, fn, p))]
        ELSE [c EXCEPT !.pins[d][p] = value,
                       !.sent = Append(@, Cmd(d, fn, p)),
                       !.timed_out = @ \/ ~Terminated(env.line)]

\* PicoController.turn_on_pin
TurnOnPin(open, c, d, p, env) == SetPin(open, c, d, p, "turn_on_pin", TRUE, env)

\* PicoController.turn_off_pin
TurnOffPin(open, c, d, p, env) == SetPin(open, c, d, p, "turn_off_pin", FALSE, env)

\* PicoController.turn_on_all_pins, from pin p on
RECURSIVE TurnOnFrom(_, _, _, _, _)
TurnOnFrom(open, c, d, p, env) ==
    IF p > NumPins \/ c.raised THEN c
    ELSE IF ~GetPinState(c.pins, d, p)
         THEN TurnOnFrom(open, TurnOnPin(open, c, d, p, env), d, p + 1, env)
         ELSE TurnOnFrom(open, c, d, p + 1, env)

\* Mutant: a call that raised restores the states the pins had before it.
TurnOnAllPins_RollsBack(open, c, d, env) ==
    LET c2 == TurnOnFrom(open, c, d, 1, env)
    IN  IF c2.raised THEN [c2 EXCEPT !.pins = c.pins] ELSE c2

TurnOnAllPins(open, c, d, env) == TurnOnFrom(open, c, d, 1, env)

\* PicoController.turn_off_all_pins, from pin p on
RECURSIVE TurnOffFrom(_, _, _, _, _)
TurnOffFrom(open, c, d, p, env) ==
    IF p > NumPins \/ c.raised THEN c
    ELSE IF GetPinState(c.pins, d, p)
         THEN TurnOffFrom(open, TurnOffPin(open, c, d, p, env), d, p + 1, env)
         ELSE TurnOffFrom(open, c, d, p + 1, env)

TurnOffAllPins(open, c, d, env) == TurnOffFrom(open, c, d, 1, env)

\* PicoController.clean_up, from talker d on: [c, open]
RECURSIVE CleanUpFrom(_, _, _, _)
CleanUpFrom(open, c, d, env) ==
    IF d > NumTalkers \/ c.raised THEN [c |-> c, open |-> open]
    ELSE LET c2 == TurnOffAllPins(open, c, d, env)
         IN  IF c2.raised
             THEN [c |-> c2, open |-> open]
             ELSE CleanUpFrom([open EXCEPT ![d] = FALSE], c2, d + 1, env)

CleanUp(open, c, env) == CleanUpFrom(open, c, 1, env)

(***************************************************************************)
(* The clock.  The loop is observed at the moments of TimesOfDay on the    *)
(* days 0..MaxDay; Clock lists them in order.                              *)
(***************************************************************************)
TimesOfDay == << <<0, 5>>, <<13, 50>>, <<14, 0>>, <<14, 20>> >>
NTimes == Len(TimesOfDay)
ClockLen == (MaxDay + 1) * NTimes

Moment(i) ==
    LET t == TimesOfDay[((i - 1) % NTimes) + 1]
    IN  <<(i - 1) \div NTimes, t[1], t[2]>>

Today(i) == Moment(i)[1]
Hour(i) == Moment(i)[2]
Minute(i) == Moment(i)[3]

\* helpers.common.get_current_quarter_timestamp
GetCurrentQuarterTimestamp(i) ==
    <<Today(i), Hour(i), (Minute(i) \div 15) * 15>>

(***************************************************************************)
(* Prices.                                                                  *)
(***************************************************************************)
RoundHalfEven(n, d) ==
    LET q == n \div d
        r == n % d
    IN  IF 2 * r < d THEN q
        ELSE IF 2 * r > d THEN q + 1
        ELSE IF q % 2 = 0 THEN q ELSE q + 1

\* The conversion of _get_current_price_c_per_kwh_vat:
\* round(eur_mwh / 1000 * (1 + VAT / 100) * 100, 2), in hundredths of a cent.
CentsPerKwhVat(mwh) == RoundHalfEven(mwh * (1000 + FINNISH_VAT_PERMILLE), 10000)

\* Prices of the feed in hundredths of EUR/MWh: 7.90, 8.00, 8.10 and
\* 10.00 cents/kWh with VAT.
Curves ==
    { <<7968, 6295, 6295, 6454>>,
      <<6295, 6375, 6295, 7968>> }

\* Mutant: position 1 is midnight.
PositionToTimestamp_FromMidnight(position, day) ==
    LET minutes_from_start == (position - 1) * 15
        day_offset == minutes_from_start \div (24 * 60)
        minutes_from_midnight == minutes_from_start % (24 * 60)
    IN  <<day + day_offset, minutes_from_midnight \div 60,
          minutes_from_midnight % 60>>

\* Mutant: the days of the offset are dropped.
PositionToTimestamp_SameDay(position, day) ==
    LET minutes_from_start == 60 + (position - 1) * 15
        minutes_from_midnight == minutes_from_start % (24 * 60)
    IN  <<day, minutes_from_midnight \div 60, minutes_from_midnight % 60>>

\* helpers.elec_prices_helpers.position_to_timestamp
PositionToTimestamp(position, day) ==
    LET minutes_from_start == 60 + (position - 1) * 15
        day_offset == minutes_from_start \div (24 * 60)
        minutes_from_midnight == minutes_from_start % (24 * 60)
    IN  <<day + day_offset, minutes_from_midnight \div 60,
          minutes_from_midnight % 60>>

\* The position the feed gives the quarter-hour of the k-th time of day:
\* position 1 is 01:00, and 00:00-00:45 are the positions 93..96 of the
\* series of the day before.
PositionOf(k) ==
    LET h == TimesOfDay[k][1]
        q == TimesOfDay[k][2] \div 15
    IN  IF h >= 1 THEN (h - 1) * 4 + q + 1 ELSE 93 + q

\* The rows save_electricity_prices_to_db makes of the series of the days ds.
SeriesRows(ds) ==
    { [timestamp |-> PositionToTimestamp(PositionOf(k), d),
       price_amount_mwh_eur |-> curve[k]] : d \in ds, k \in 1..NTimes }

\* What get_electricity_prices returns on the given day: the series of
\* today, and of tomorrow once it is published.
FeedResponses(day) ==
    { [raised |-> TRUE, days |-> {}],
      [raised |-> FALSE, days |-> {day}],
      [raised |-> FALSE, days |-> {day, day + 1}] }

\* save_electricity_prices_to_db: rows whose timestamp is stored are skipped.
SaveElectricityPricesToDb(rows, db) ==
    db \cup { r \in rows : \A o \in db : o.timestamp # r.timestamp }

\* services.electricity_prices.check_if_tomorrow_prices_exist
CheckIfTomorrowPricesExist(db, i) ==
    \E r \in db : r.timestamp[1] = Today(i) + 1 /\ r.timestamp[2] >= 1

(***************************************************************************)
(* save_electricity_prices_to_db, point by point.  A response is a list of *)
(* series; a series is a day and its points in the order of the document;  *)
(* a point is a position and a price.  The positions are decimal texts     *)
(* that int() reads; they are integers here, prices are integers as in the *)
(* store.  The table is the sequence of its rows in the order of insertion.*)
(***************************************************************************)
InsertAt(seq, i, x) == SubSeq(seq, 1, i - 1) \o <<x>> \o SubSeq(seq, i, Len(seq))

\* Mutant: the synthesized point has the price 0.
FillerPoint_NoPrice(position, last_valid_price_amount) ==
    [position |-> position - 1, price_amount |-> 0]

\* The point points.insert puts before a point whose predecessor is missing.
FillerPoint(position, last_valid_price_amount) ==
    [position |-> position - 1, price_amount |-> last_valid_price_amount]

\* Mutant: no timestamp is found in the table.
Exists_Never(tbl, timestamp) == FALSE

\* The select ... where timestamp == timestamp ... first() of the loop.
Exists(tbl, timestamp) ==
    \E k \in 1..Len(tbl) : tbl[k].timestamp = timestamp

\* One pass through the body of the while loop.  st is the loop's state:
\* the list points (which the loop itself extends), the index i (from 1),
\* last_valid_price_amount and the rows appended to new_rows_to_db so far.
LoopStep(st, day, tbl) ==
    LET points == st.points
        i == st.i
        position == points[i].position
        price_amount == points[i].price_amount
        last_position == IF i > 1 THEN Some(points[i - 1].position) ELSE None
        gap == last_position # None /\ position - 1 # last_position[1]
    IN  IF gap /\ st.last_valid_price_amount # None
        THEN [st EXCEPT !.points =
                 InsertAt(points, i,
                          FillerPoint(position, st.last_valid_price_amount[1]))]
        ELSE LET timestamp == PositionToTimestamp(position, day)
             IN  [st EXCEPT
                     !.i = i + 1,
                     !.last_valid_price_amount = Some(price_amount),
                     !.rows = IF Exists(tbl, timestamp) THEN st.rows
                              ELSE Append(st.rows,
                                          [timestamp |-> timestamp,
                                           price_amount_mwh_eur |->
                                               price_amount])]

\* while i < len(points): at most `passes` passes, evaluated by halving so
\* that a whole day of points is no deeper than a few calls.
RECURSIVE RunLoop(_, _, _, _)
RunLoop(st, day, tbl, passes) ==
    IF st.i > Len(st.points) THEN st
    ELSE IF passes <= 1 THEN LoopStep(st, day, tbl)
    ELSE RunLoop(RunLoop(st, day, tbl, passes \div 2), day, tbl,
                 passes - (passes \div 2))

\* Mutant: a series that begins after position 1 is scanned as if it began
\* with a point for position 1 that has the price of its first point.
ScanPoints_FromOne(points, day, tbl, rows) ==
    RunLoop([points |-> IF points[1].position > 1
                        THEN <<[position |-> 1,
                                price_amount |-> points[1].price_amount]>>
                                 \o points
                        ELSE points,
             i |-> 1, last_valid_price_amount |-> None, rows |-> rows],
            day, tbl, 2 * POSITIONS_PER_DAY).rows

\* The loop over the points of one series.  With positions that ascend
\* within 1..POSITIONS_PER_DAY the loop ends after at most one pass for
\* each position and one for each point it inserts.
ScanPoints(points, day, tbl, rows) ==
    RunLoop([points |-> points, i |-> 1, last_valid_price_amount |-> None,
             rows |-> rows],
            day, tbl, 2 * POSITIONS_PER_DAY).rows

\* The for loop over series_list.
RECURSIVE ScanSeries(_, _, _, _)
ScanSeries(series_list, k, tbl, rows) ==
    IF k > Len(series_list) THEN rows
    ELSE ScanSeries(series_list, k + 1, tbl,
                    ScanPoints(series_list[k].points, series_list[k].day,
                               tbl, rows))

\* new_rows_to_db when the loops are over.
NewRowsToDb(series_list, tbl) == ScanSeries(series_list, 1, tbl, <<>>)

\* Mutant: every row is committed on its own.
CommitRows_PerRow(tbl, rows, failAt) ==
    IF rows = <<>> THEN [table |-> tbl, raised |-> FALSE]
    ELSE IF failAt \in 1..Len(rows)
         THEN [table |-> tbl \o SubSeq(rows, 1, failAt - 1), raised |-> TRUE]
         ELSE [table |-> tbl \o rows, raised |-> FALSE]

\* session.add_all, session.commit and, in the except branch,
\* session.rollback and raise.  failAt = 0: the store takes the batch;
\* failAt = k: it fails at the k-th row, when the batch has that many.
CommitRows(tbl, rows, failAt) ==
    IF rows = <<>> THEN [table |-> tbl, raised |-> FALSE]
    ELSE IF failAt \in 1..Len(rows)
         THEN [table |-> tbl, raised |-> TRUE]
         ELSE [table |-> tbl \o rows, raised |-> FALSE]

\* The price the feed gives a position: 10, 10, 9, 8, 7, ... EUR/MWh.
FeedPrice(position) == IF position <= 2 THEN 1000 ELSE 1200 - 100 * position

\* The points of the positions in S, in ascending order.
PointsAt(S) ==
    SelectSeq([q \in 1..POSITIONS_PER_DAY |->
                  [position |-> q, price_amount |-> FeedPrice(q)]],
              LAMBDA pt : pt.position \in S)

\* The series the function is checked with: every non-empty set of the
\* positions 1..MaxPosition, and the whole day.
PointLists ==
    {PointsAt(S) : S \in (SUBSET (1..MaxPosition)) \ {{}}}
        \cup {PointsAt(1..POSITIONS_PER_DAY)}

IngestDays == {0}

SeriesInputs == [day : IngestDays, points : PointLists]

\* The responses: one series, or the same series twice.
Responses ==
    {<<sr>> : sr \in SeriesInputs} \cup {<<sr, sr>> : sr \in SeriesInputs}

NoIngest ==
    [op |-> "none", input |-> <<>>, pre |-> <<>>, new |-> <<>>,
     store_failed |-> FALSE, raised |-> FALSE]

(***************************************************************************)
(* One Talker and its serial line, reply by reply.  The commands sent are   *)
(* numbered; a line of the input buffer is the text of a reply and the      *)
(* number of the command the remote wrote it for.  rx is the input buffer   *)
(* of the port, flight the replies the remote has written that have not     *)
(* reached the buffer yet.                                                   *)
(***************************************************************************)
NoCall ==
    [op |-> "none", cmd |-> 0, raised |-> FALSE, timed_out |-> FALSE,
     line_of |-> None, reply |-> <<>>, result |-> None]

NoLink == [rx |-> <<>>, flight |-> <<>>, n |-> 0, last |-> NoCall]

\* What the remote does with a command: it replies before the read timeout
\* is over, after it, or not at all.
Remotes == {"in_time", "late", "never"}

\* serial.read_until(TERMINATOR) on the buffer rx: the first line and the
\* command it replies to, or, when the timeout ends the read, the empty
\* buffer; and what stays in the buffer.
ReadUntil(rx) ==
    IF rx # <<>>
    THEN [line |-> Head(rx).text, line_of |-> Some(Head(rx).to),
          timed_out |-> FALSE, rest |-> Tail(rx)]
    ELSE [line |-> <<>>, line_of |-> None, timed_out |-> TRUE, rest |-> <<>>]

\* Talker.send_to_pico for the k-th command on the line lk of talker 1:
\* write, read one line, remove the prompt.  write_ok is whether
\* serial.write returns.
SendOverLink(lk, k, remote, text, write_ok) ==
    IF ~write_ok
    THEN [rx |-> lk.rx, flight |-> lk.flight, raised |-> TRUE,
          timed_out |-> FALSE, line_of |-> None, reply |-> <<>>]
    ELSE
    LET mine == [to |-> k, text |-> text]
        arrived == IF remote = "in_time" THEN Append(lk.rx, mine) ELSE lk.rx
        r == ReadUntil(arrived)
    IN  [rx |-> r.rest,
         flight |-> IF remote = "late" THEN Append(lk.flight, mine)
                    ELSE lk.flight,
         raised |-> FALSE, timed_out |-> r.timed_out, line_of |-> r.line_of,
         reply |-> Remove(ReceiveFromPico(1, r.line), PROMPT)]

\* Talker.verify_connection: both buffers are reset, ping() is sent, and
\* the result is whether the reply is a non-empty text; an exception gives
\* False.
VerifyConnection(lk, k, remote, text, write_ok) ==
    LET r == SendOverLink([lk EXCEPT !.rx = <<>>], k, remote, text, write_ok)
    IN  [r |-> r,
         result |-> IF r.raised THEN FALSE ELSE r.reply # <<>>]

(***************************************************************************)
(* Calls of position_to_timestamp, and the while loop pass by pass.         *)
(***************************************************************************)
NoConv == [op |-> "none", position |-> 0, day |-> 0, timestamp |-> <<>>]

NoScan == [op |-> "none", passes |-> 0, inserted |-> 0, st |-> <<>>]

(***************************************************************************)
(* ElectricityMonitorService.                                               *)
(***************************************************************************)
InitStatus ==
    [is_running |-> FALSE,
     current_price |-> None,
     new_data_should_be_available |-> FALSE,
     latest_data_fetched |-> FALSE,
     car_charging |-> None]

\* The first quarter of the day, where _new_data_status_check resets.
InResetWindow(i) == Hour(i) = 0 /\ Minute(i) < RESET_MINUTES

\* Mutant: the first quarter of the day resets nothing.
NewDataStatusCheck_NoReset(st, i) ==
    IF /\ Hour(i) >= FETCH_HOUR
       /\ ~st.latest_data_fetched
       /\ ~st.new_data_should_be_available
    THEN [st EXCEPT !.new_data_should_be_available = TRUE]
    ELSE st

\* ElectricityMonitorService._new_data_status_check
NewDataStatusCheck(st, i) ==
    LET s1 == IF InResetWindow(i)
              THEN [st EXCEPT !.latest_data_fetched = FALSE,
                              !.new_data_should_be_available = FALSE]
              ELSE st
    IN  IF /\ Hour(i) >= FETCH_HOUR
           /\ ~s1.latest_data_fetched
           /\ ~s1.new_data_should_be_available
        THEN [s1 EXCEPT !.new_data_should_be_available = TRUE]
        ELSE s1

\* The gate of the daily-fetch step in _monitor_prices_task.
FetchGate(st) == ~st.latest_data_fetched /\ st.new_data_should_be_available

\* Mutant: new_data_should_be_available is left as it is.
MarkFetched_KeepsDue(st) ==
    [st EXCEPT !.latest_data_fetched = TRUE]

\* Mutant: latest_data_fetched is not set.
MarkFetched_NotCompleted(st) ==
    [st EXCEPT !.new_data_should_be_available = FALSE]

\* The two assignments after a daily fetch that succeeded, and after
\* tomorrow's prices were found in the store.
MarkFetched(st) ==
    [st EXCEPT !.latest_data_fetched = TRUE,
               !.new_data_should_be_available = FALSE]

\* Mutant: a failed fetch is recorded as completed.
OnFetchFailure_GivesUp(st) == MarkFetched(st)

\* The except branches of the daily-fetch step: they log.
OnFetchFailure(st) == st

\* ElectricityMonitorService._fetch_and_save_prices: the store afterwards.
\* resp.raised is whether get_electricity_prices raises; save_ok is whether
\* the session and the writes of save_electricity_prices_to_db succeed.
FetchSucceeds(resp, save_ok) == ~resp.raised /\ save_ok
FetchAndSavePrices(db, resp, save_ok) ==
    IF FetchSucceeds(resp, save_ok)
    THEN SaveElectricityPricesToDb(SeriesRows(resp.days), db)
    ELSE db

\* Mutant: a quarter-hour without a row has the price 0.
GetCurrentPrice_Default(db, i, db_ok) ==
    LET rows == {r \in db : r.timestamp = GetCurrentQuarterTimestamp(i)}
    IN  IF ~db_ok THEN NotFound
        ELSE IF rows = {} THEN Some(0)
        ELSE Some(CentsPerKwhVat((CHOOSE r \in rows : TRUE).price_amount_mwh_eur))

\* ElectricityMonitorService._get_current_price_c_per_kwh_vat: the price in
\* hundredths of a cent, or NotFound for ElectricityPriceNotFoundError.
\* db_ok is whether the session and the query succeed.
GetCurrentPrice(db, i, db_ok) ==
    LET rows == {r \in db : r.timestamp = GetCurrentQuarterTimestamp(i)}
    IN  IF ~db_ok \/ rows = {} THEN NotFound
        ELSE Some(CentsPerKwhVat((CHOOSE r \in rows : TRUE).price_amount_mwh_eur))

\* Mutant: car_charging is assigned before the pins are switched.
CarChargeLogic_FlagFirst(open, st, c, price_c, env) ==
    IF price_c < CAR_CHARGE_THRESHOLD_C
    THEN IF st.car_charging = Some(TRUE)
         THEN [st |-> st, c |-> c, action |-> "none"]
         ELSE [st |-> [st EXCEPT !.car_charging = Some(TRUE)],
               c |-> TurnOnAllPins(open, c, CHARGE_TALKER, env),
               action |-> "turn_on_all_pins"]
    ELSE IF st.car_charging # Some(TRUE)
         THEN [st |-> st, c |-> c, action |-> "none"]
         ELSE [st |-> [st EXCEPT !.car_charging = Some(FALSE)],
               c |-> TurnOffAllPins(open, c, CHARGE_TALKER, env),
               action |-> "turn_off_all_pins"]

\* ElectricityMonitorService._car_charge_logic: [st, c, action]
CarChargeLogic(open, st, c, price_c, env) ==
    IF price_c < CAR_CHARGE_THRESHOLD_C
    THEN IF st.car_charging = Some(TRUE)
         THEN [st |-> st, c |-> c, action |-> "none"]
         ELSE LET c2 == TurnOnAllPins(open, c, CHARGE_TALKER, env)
              IN  [st |-> IF c2.raised THEN st
                          ELSE [st EXCEPT !.car_charging = Some(TRUE)],
                   c |-> c2, action |-> "turn_on_all_pins"]
    ELSE IF st.car_charging # Some(TRUE)
         THEN [st |-> st, c |-> c, action |-> "none"]
         ELSE LET c2 == TurnOffAllPins(open, c, CHARGE_TALKER, env)
              IN  [st |-> IF c2.raised THEN st
                          ELSE [st EXCEPT !.car_charging = Some(FALSE)],
                   c |-> c2, action |-> "turn_off_all_pins"]

\* ElectricityMonitorService._pico_control_logic
PicoControlLogic(open, st, c, price_c, env) ==
    CarChargeLogic(open, st, c, price_c, env)

\* The condition of the control step.
PriceChanged(st, price) == Some(price) # None /\ Some(price) # st.current_price

\* Mutant: the price is not recorded.
RecordPrice_Skipped(st, price) == st

\* The assignment that ends a control step.
RecordPrice(st, price) == [st EXCEPT !.current_price = Some(price)]

NoTick ==
    [op |-> "none", daily |-> "none", window |-> FALSE, found |-> None,
     policy |-> FALSE, raised |-> FALSE,
     pre_price |-> None, pre_charging |-> None]

NoCtl ==
    [op |-> "none", talker |-> 0, pin |-> 0, pre |-> InitPinStates,
     sent |-> <<>>, timed_out |-> FALSE, link_failed |-> FALSE,
     key_error |-> FALSE, failed |-> None, result |-> None,
     raised |-> FALSE]

CtlOf(op, d, p, pre, c) ==
    [op |-> op, talker |-> d, pin |-> p, pre |-> pre,
     sent |-> c.sent, timed_out |-> c.timed_out,
     link_failed |-> c.link_failed, key_error |-> c.key_error,
     failed |-> c.failed, result |-> None, raised |-> c.raised]

\* The second half of an iteration of _monitor_prices_task: the price of the
\* current quarter-hour, the control step, and where the task waits next.
\* st is the status after the daily-fetch step, t the record of the tick so
\* far, i the time.  Whether the store answers and what the link does are
\* inputs.
LookupAndControl(st, db, i, t) ==
    \E db_ok \in BOOLEAN :
      LET found == GetCurrentPrice(db, i, db_ok)
          price == found[1]
          t1 == [t EXCEPT !.found = found,
                          !.pre_price = status.current_price,
                          !.pre_charging = status.car_charging]
      IN  IF found = NotFound
          THEN /\ status' = st
               /\ pc' = "recovery_await"
               /\ tick' = t1
               /\ ctl' = NoCtl
               /\ UNCHANGED <<pin_states, failed_price>>
          ELSE IF PriceChanged(st, price)
          THEN \E env \in MonitorEnvs :
               LET r == PicoControlLogic(serial_open, st, Ctx(pin_states),
                                         price, env)
               IN  /\ status' = IF r.c.raised THEN r.st
                                ELSE RecordPrice(r.st, price)
                   /\ pin_states' = r.c.pins
                   /\ pc' = "sleep"
                   /\ tick' = [t1 EXCEPT !.policy = TRUE,
                                         !.raised = r.c.raised]
                   /\ ctl' = IF r.action = "none" THEN NoCtl
                             ELSE CtlOf(r.action, CHARGE_TALKER, 0,
                                        pin_states, r.c)
                   /\ failed_price' = IF r.c.raised THEN found ELSE None
          ELSE /\ status' = st
               /\ pc' = "sleep"
               /\ tick' = t1
               /\ ctl' = NoCtl
               /\ failed_price' = None
               /\ UNCHANGED pin_states

Min(a, b) == IF a < b THEN a ELSE b

\* Mutant: the loop does not read is_running.
LoopContinues_Always(st) == TRUE

\* The condition of the while loop of _monitor_prices_task.
LoopContinues(st) == st.is_running

Init ==
    /\ status = InitStatus
    /\ pin_states = InitPinStates
    /\ serial_open = [d \in Devices |-> TRUE]
    /\ pc = "not_started"
    /\ shutdown = FALSE
    /\ now = 1
    /\ store = {}
    /\ curve \in Curves
    /\ tick = NoTick
    /\ ctl = NoCtl
    /\ retrying = FALSE
    /\ daily_ok = 0
    /\ failed_price = None
    /\ table = <<>>
    /\ ingest = NoIngest
    /\ link = NoLink
    /\ conv = NoConv
    /\ scan = NoScan

\* ElectricityMonitorService.start, up to the first iteration of the loop.
Start ==
    /\ pc = "not_started"
    /\ pc' = "top"
    /\ status' = [status EXCEPT !.is_running = TRUE]
    /\ tick' = NoTick
    /\ ctl' = NoCtl
    /\ UNCHANGED <<pin_states, serial_open, shutdown, now, store, curve,
                   retrying, daily_ok, failed_price,
                   table, ingest, link, conv, scan>>

\* The loop finds is_running false and the task ends.
LoopExit ==
    /\ pc \in {"top", "sleep"}
    /\ ~LoopContinues(status)
    /\ pc' = "done"
    /\ tick' = NoTick
    /\ ctl' = NoCtl
    /\ UNCHANGED <<status, pin_states, serial_open, shutdown, now, store,
                   curve, retrying, daily_ok, failed_price,
                   table, ingest, link, conv, scan>>

\* One iteration of _monitor_prices_task from the loop condition to its
\* first suspension: the status check, the daily-fetch step up to the call
\* of the feed, and, when the feed is not called, the lookup and the control
\* step.  The time that passed in the sleep is an input.
TickStart ==
    /\ pc \in {"top", "sleep"}
    /\ LoopContinues(status)
    /\ \E n \in now..Min(now + 1, ClockLen) :
        /\ now' = IF pc = "sleep" THEN n ELSE now
        /\ LET st1 == NewDataStatusCheck(status, now')
               t0 == [NoTick EXCEPT !.op = "tick",
                                    !.window = InResetWindow(now')]
           IN  /\ daily_ok' = IF InResetWindow(now') THEN 0 ELSE daily_ok
               /\ IF FetchGate(st1)
                  THEN \E session_ok, check_ok \in BOOLEAN :
                       IF ~session_ok \/ ~check_ok
                       THEN \* the exception leaves the task
                            /\ pc' = "crashed"
                            /\ status' = st1
                            /\ tick' = [t0 EXCEPT !.daily = "crashed"]
                            /\ ctl' = NoCtl
                            /\ UNCHANGED <<pin_states, retrying, failed_price>>
                       ELSE IF ~CheckIfTomorrowPricesExist(store, now')
                       THEN \* suspended in the feed's request
                            /\ pc' = "daily_await"
                            /\ status' = st1
                            /\ tick' = [t0 EXCEPT !.daily = "await"]
                            /\ ctl' = NoCtl
                            /\ UNCHANGED <<pin_states, retrying, failed_price>>
                       ELSE /\ retrying' = FALSE
                            /\ LookupAndControl(
                                   MarkFetched(st1), store, now',
                                   [t0 EXCEPT !.daily = "exists"])
                  ELSE /\ UNCHANGED retrying
                       /\ LookupAndControl(st1, store, now', t0)
    /\ UNCHANGED <<serial_open, shutdown, store, curve, table, ingest, link, conv, scan>>

\* The feed's request of the daily-fetch step returns: the rest of
\* _fetch_and_save_prices, the flags, then the lookup and the control step.
DailyFetchDone ==
    /\ pc = "daily_await"
    /\ \E resp \in FeedResponses(Today(now)),
          save_ok \in BOOLEAN :
        LET ok == FetchSucceeds(resp, save_ok)
            st1 == IF ok THEN MarkFetched(status) ELSE OnFetchFailure(status)
            t0 == [NoTick EXCEPT !.op = "tick",
                                 !.daily = IF ok THEN "ok" ELSE "failed"]
        IN  /\ store' = FetchAndSavePrices(store, resp, save_ok)
            /\ retrying' = ~ok
            /\ daily_ok' = IF ok THEN Min(daily_ok + 1, MaxDailyOk)
                           ELSE daily_ok
            /\ LookupAndControl(st1, store', now, t0)
    /\ UNCHANGED <<serial_open, shutdown, now, curve, table, ingest, link, conv, scan>>

\* The feed's request of the not-found path returns; its failures are logged.
RecoveryFetchDone ==
    /\ pc = "recovery_await"
    /\ \E resp \in FeedResponses(Today(now)),
          save_ok \in BOOLEAN :
        store' = FetchAndSavePrices(store, resp, save_ok)
    /\ pc' = "sleep"
    /\ tick' = [NoTick EXCEPT !.op = "recovery"]
    /\ ctl' = NoCtl
    /\ UNCHANGED <<status, pin_states, serial_open, shutdown, now, curve,
                   retrying, daily_ok, failed_price,
                   table, ingest, link, conv, scan>>

\* ElectricityMonitorService.stop, called by the shutdown part of lifespan
\* when the service is running.
Shutdown ==
    /\ ~shutdown
    /\ pc # "not_started"
    /\ shutdown' = TRUE
    /\ tick' = NoTick
    /\ IF status.is_running
       THEN \E env \in MonitorEnvs :
              LET r == CleanUp(serial_open, Ctx(pin_states), env)
              IN  /\ status' = [status EXCEPT !.is_running = FALSE]
                  /\ pin_states' = r.c.pins
                  /\ serial_open' = r.open
                  /\ ctl' = CtlOf("clean_up", 0, 0, pin_states, r.c)
       ELSE /\ ctl' = NoCtl
            /\ UNCHANGED <<status, pin_states, serial_open>>
    /\ UNCHANGED <<pc, now, store, curve, retrying, daily_ok, failed_price,
                   table, ingest, link, conv, scan>>

Next ==
    \/ Start
    \/ LoopExit
    \/ TickStart
    \/ DailyFetchDone
    \/ RecoveryFetchDone
    \/ Shutdown

Spec == Init /\ [][Next]_vars

\* The event loop runs a task that is ready: the task reads the loop
\* condition when its sleep of 10 s is over, and resumes when the feed's
\* request has returned or has timed out after 10 s.
FairSpec ==
    /\ Spec
    /\ WF_vars(LoopExit)
    /\ WF_vars(DailyFetchDone)
    /\ WF_vars(RecoveryFetchDone)

(***************************************************************************)
(* The PicoController on its own: a caller invokes its operations in any   *)
(* order, single pins drawn from CtrlPins.                                  *)
(***************************************************************************)
CtrlPins == {1, NumPins}
\* The talker ids a caller passes: the keys of self.talkers and one that is
\* not a key.
CtrlTalkers == 1..(NumTalkers + 1)
PinEnvs == [failAt : {0, 1}, line : {RxReply, RxPartial, RxNothing}]
CtrlEnvs == [failAt : {0, 3}, line : {RxReply, RxNothing}]

CtrlFrame == UNCHANGED <<status, pc, shutdown, now, store, curve, tick,
                         retrying, daily_ok, failed_price,
                   table, ingest, link, conv, scan>>

\* await controller.turn_on_pin(d, p)
CtrlTurnOnPin ==
    \E d \in CtrlTalkers, p \in CtrlPins, env \in PinEnvs :
        LET c == TurnOnPin(serial_open, Ctx(pin_states), d, p, env)
        IN  /\ pin_states' = c.pins
            /\ ctl' = CtlOf("turn_on_pin", d, p, pin_states, c)
            /\ UNCHANGED serial_open
            /\ CtrlFrame

\* await controller.turn_off_pin(d, p)
CtrlTurnOffPin ==
    \E d \in CtrlTalkers, p \in CtrlPins, env \in PinEnvs :
        LET c == TurnOffPin(serial_open, Ctx(pin_states), d, p, env)
        IN  /\ pin_states' = c.pins
            /\ ctl' = CtlOf("turn_off_pin", d, p, pin_states, c)
            /\ UNCHANGED serial_open
            /\ CtrlFrame

\* await controller.turn_on_all_pins(d)
CtrlTurnOnAllPins ==
    \E d \in CtrlTalkers, env \in CtrlEnvs :
        LET c == TurnOnAllPins(serial_open, Ctx(pin_states), d, env)
        IN  /\ pin_states' = c.pins
            /\ ctl' = CtlOf("turn_on_all_pins", d, 0, pin_states, c)
            /\ UNCHANGED serial_open
            /\ CtrlFrame

\* await controller.turn_off_all_pins(d)
CtrlTurnOffAllPins ==
    \E d \in CtrlTalkers, env \in CtrlEnvs :
        LET c == TurnOffAllPins(serial_open, Ctx(pin_states), d, env)
        IN  /\ pin_states' = c.pins
            /\ ctl' = CtlOf("turn_off_all_pins", d, 0, pin_states, c)
            /\ UNCHANGED serial_open
            /\ CtrlFrame

\* await controller.clean_up()
CtrlCleanUp ==
    \E env \in CtrlEnvs :
        LET r == CleanUp(serial_open, Ctx(pin_states), env)
        IN  /\ pin_states' = r.c.pins
            /\ serial_open' = r.open
            /\ ctl' = CtlOf("clean_up", 0, 0, pin_states, r.c)
            /\ CtrlFrame

\* await controller.get_pin_state(d, p)
CtrlGetPinState ==
    \E d \in CtrlTalkers, p \in CtrlPins :
        /\ ctl' = [CtlOf("get_pin_state", d, p, pin_states, Ctx(pin_states))
                     EXCEPT !.result = Some(GetPinState(pin_states, d, p))]
        /\ UNCHANGED <<pin_states, serial_open>>
        /\ CtrlFrame

CtrlNext ==
    \/ CtrlTurnOnPin
    \/ CtrlTurnOffPin
    \/ CtrlGetPinState
    \/ CtrlTurnOnAllPins
    \/ CtrlTurnOffAllPins
    \/ CtrlCleanUp

CtrlInit == Init /\ curve = <<7968, 6295, 6295, 6454>>

CtrlSpec == CtrlInit /\ [][CtrlNext]_vars

(***************************************************************************)
(* save_electricity_prices_to_db on its own: its callers, the monitor loop *)
(* and the route /electricity/prices, call it one call after the other.    *)
(***************************************************************************)
IngestFrame ==
    UNCHANGED <<status, pin_states, serial_open, pc, shutdown, now, store,
                curve, tick, ctl, retrying, daily_ok, failed_price,
                link, conv, scan>>

\* save_electricity_prices_to_db(prices, session)
IngestSave ==
    \E series_list \in Responses, failAt \in {0, 2} :
        /\ Len(table) <= MaxRows \/ series_list = ingest.input
        /\ LET rows == NewRowsToDb(series_list, table)
               r == CommitRows(table, rows, failAt)
           IN  /\ table' = r.table
               /\ ingest' = [op |-> "save", input |-> series_list,
                             pre |-> table, new |-> rows,
                             store_failed |-> failAt \in 1..Len(rows),
                             raised |-> r.raised]
        /\ IngestFrame

IngestNext == IngestSave

IngestInit == Init /\ curve = <<7968, 6295, 6295, 6454>>

IngestSpec == IngestInit /\ [][IngestNext]_vars

(***************************************************************************)
(* A Talker on its own: a caller sends commands and verifies the            *)
(* connection, the remote's late replies reach the buffer in between.       *)
(***************************************************************************)
LinkFrame ==
    UNCHANGED <<status, pin_states, serial_open, pc, shutdown, now, store,
                curve, tick, ctl, retrying, daily_ok, failed_price,
                table, ingest, conv, scan>>

\* talker.send_to_pico(text)
LinkSend ==
    /\ link.n < MaxCmds
    /\ \E remote \in Remotes, text \in {RxReply, RxPrompted},
          write_ok \in BOOLEAN :
        LET k == link.n + 1
            r == SendOverLink(link, k, remote, text, write_ok)
        IN  link' = [rx |-> r.rx, flight |-> r.flight, n |-> k,
                     last |-> [op |-> "send", cmd |-> k, raised |-> r.raised,
                               timed_out |-> r.timed_out,
                               line_of |-> r.line_of, reply |-> r.reply,
                               result |-> None]]
    /\ LinkFrame

\* talker.verify_connection()
LinkVerify ==
    /\ link.n < MaxCmds
    /\ \E remote \in Remotes, text \in {RxReply, RxPrompted},
          write_ok \in BOOLEAN :
        LET k == link.n + 1
            v == VerifyConnection(link, k, remote, text, write_ok)
        IN  link' = [rx |-> v.r.rx, flight |-> v.r.flight, n |-> k,
                     last |-> [op |-> "verify", cmd |-> k,
                               raised |-> FALSE,
                               timed_out |-> v.r.timed_out,
                               line_of |-> v.r.line_of, reply |-> v.r.reply,
                               result |-> Some(v.result)]]
    /\ LinkFrame

\* A reply the remote wrote late reaches the input buffer.
LinkDeliver ==
    /\ link.flight # <<>>
    /\ link' = [link EXCEPT !.rx = Append(@, Head(link.flight)),
                            !.flight = Tail(@),
                            !.last = NoCall]
    /\ LinkFrame

LinkNext ==
    \/ LinkSend
    \/ LinkVerify
    \/ LinkDeliver

LinkInit == Init /\ curve = <<7968, 6295, 6295, 6454>>

LinkSpec == LinkInit /\ [][LinkNext]_vars

(***************************************************************************)
(* position_to_timestamp on its own, for every position of a day.  The day  *)
(* is the number of the day; the code reads it from the text YYYYMMDD.      *)
(***************************************************************************)
ConvFrame ==
    UNCHANGED <<status, pin_states, serial_open, pc, shutdown, now, store,
                curve, tick, ctl, retrying, daily_ok, failed_price,
                table, ingest, link, scan>>

\* position_to_timestamp(position, day)
Convert ==
    /\ \E position \in 1..POSITIONS_PER_DAY, day \in 0..MaxDay :
        conv' = [op |-> "call", position |-> position, day |-> day,
                 timestamp |-> PositionToTimestamp(position, day)]
    /\ ConvFrame

ConvNext == Convert

ConvInit == Init /\ curve = <<7968, 6295, 6295, 6454>>

ConvSpec == ConvInit /\ [][ConvNext]_vars

(***************************************************************************)
(* The while loop of save_electricity_prices_to_db, one pass at a time, on  *)
(* an empty table, for point lists whose positions need not ascend.  The    *)
(* list of points is followed until it has MaxPoints points.                *)
(***************************************************************************)
ScanFrame ==
    UNCHANGED <<status, pin_states, serial_open, pc, shutdown, now, store,
                curve, tick, ctl, retrying, daily_ok, failed_price,
                table, ingest, link, conv>>

\* The point lists of 1..MaxLen points with positions in 1..MaxPosition, in
\* any order and with repetitions.
ScanInputs ==
    UNION {[1..n -> 1..MaxPosition] : n \in 1..MaxLen}

\* not (i < len(points))
ScanDone == scan.op = "scan" /\ scan.st.i > Len(scan.st.points)

\* The loop is entered: last_valid_price_amount = None, i = 0.
ScanBegin ==
    /\ scan.op = "none"
    /\ \E ps \in ScanInputs :
        scan' = [op |-> "scan", passes |-> 0, inserted |-> 0,
                 st |-> [points |-> [k \in 1..Len(ps) |->
                                        [position |-> ps[k],
                                         price_amount |-> FeedPrice(ps[k])]],
                         i |-> 1, last_valid_price_amount |-> None,
                         rows |-> <<>>]]
    /\ ScanFrame

\* One pass through the body of the loop.
ScanStep ==
    /\ scan.op = "scan"
    /\ ~ScanDone
    /\ Len(scan.st.points) < MaxPoints
    /\ LET st2 == LoopStep(scan.st, 0, <<>>)
       IN  scan' = [op |-> "scan", passes |-> scan.passes + 1,
                    inserted |-> scan.inserted +
                        (IF Len(st2.points) > Len(scan.st.points)
                         THEN 1 ELSE 0),
                    st |-> st2]
    /\ ScanFrame

ScanNext ==
    \/ ScanBegin
    \/ ScanStep

ScanInit == Init /\ curve = <<7968, 6295, 6295, 6454>>

\* The loop runs on while its condition holds.
FairScanSpec == ScanInit /\ [][ScanNext]_vars /\ WF_vars(ScanStep)

(***************************************************************************)
(* Properties.                                                              *)
(***************************************************************************)
\* The operation wrote the command fn for pin p of talker d.
Sent(d, fn, p) ==
    \E k \in 1..Len(ctl.sent) : ctl.sent[k] = Cmd(d, fn, p)

SentAny(d, p) ==
    \E k \in 1..Len(ctl.sent) :
        ctl.sent[k].talker = d /\ ctl.sent[k].pin = p

AllRecorded(d, value) == \A p \in Pins : pin_states[d][p] = value

\* C1: pin commands are idempotent: an all-on request for a talker writes no
\* command for a pin that is recorded on when the request starts, and an
\* all-off request none for a pin that is recorded off.
C1_PinCommandsIdempotent ==
    /\ ctl.op = "turn_on_all_pins" =>
         \A p \in Pins : ctl.pre[ctl.talker][p] => ~SentAny(ctl.talker, p)
    /\ ctl.op = "turn_off_all_pins" =>
         \A p \in Pins : ~ctl.pre[ctl.talker][p] => ~SentAny(ctl.talker, p)

\* C2: the threshold policy: a tick that finds a price below the threshold
\* while charging is not enabled turns all pins of the charging talker on
\* and sets car_charging; one that finds a price at or above the threshold
\* while charging is enabled writes a turn-off for every pin that is on and
\* clears car_charging; any other tick writes no command.  Ticks whose
\* command raised are left out.
C2_ThresholdPolicy ==
    (tick.op = "tick" /\ tick.found # NotFound /\ ~tick.raised) =>
        LET price == tick.found[1]
        IN  IF price < CAR_CHARGE_THRESHOLD_C /\ tick.pre_charging # Some(TRUE)
            THEN /\ ctl.op = "turn_on_all_pins"
                 /\ AllRecorded(CHARGE_TALKER, TRUE)
                 /\ status.car_charging = Some(TRUE)
            ELSE IF price >= CAR_CHARGE_THRESHOLD_C
                    /\ tick.pre_charging = Some(TRUE)
            THEN /\ \A p \in Pins :
                       ctl.pre[CHARGE_TALKER][p] =>
                           Sent(CHARGE_TALKER, "turn_off_pin", p)
                 /\ status.car_charging = Some(FALSE)
            ELSE ctl.sent = <<>>

\* C3: the monitor loop ends only by finding is_running false: no failure of
\* the feed, of the store or of a link ends the task.
C3_LoopEndsOnlyOnStop ==
    /\ pc # "crashed"
    /\ pc = "done" => ~status.is_running

\* C4: after a clean_up that did not raise, every pin that was on has been
\* written a turn-off and is recorded off, and every serial port is closed.
C4_ShutdownTurnsEverythingOff ==
    (ctl.op = "clean_up" /\ ~ctl.raised) =>
        /\ \A d \in Devices, p \in Pins :
               /\ ctl.pre[d][p] => Sent(d, "turn_off_pin", p)
               /\ ~pin_states[d][p]
        /\ \A d \in Devices : ~serial_open[d]

\* C5: when the link fails under turn_on_pin or turn_off_pin, pin_states is
\* what it was before the call and the call raises.
C5_FailedWriteRecordsNothing ==
    (ctl.op \in {"turn_on_pin", "turn_off_pin"} /\ ctl.link_failed) =>
        /\ pin_states = ctl.pre
        /\ ctl.raised

\* A turn-off of a pin that is recorded on failed on the link.
C5_Witness ==
    /\ ctl.op = "turn_off_pin"
    /\ ctl.link_failed
    /\ ctl.pre[ctl.talker][ctl.pin]
    /\ serial_open[ctl.talker]

\* C6: a pin command whose reply did not arrive before the read timeout
\* raises and is not recorded.
C6_TimeoutIsFailure ==
    (ctl.op \in {"turn_on_pin", "turn_off_pin"} /\ ctl.timed_out) =>
        /\ ctl.raised
        /\ pin_states = ctl.pre

FlagsAwaitRetry ==
    status.new_data_should_be_available /\ ~status.latest_data_fetched

C8_NoFetchEveryTick ==
    /\ [](daily_ok <= 1)
    /\ [][status.latest_data_fetched => pc' # "daily_await"]_vars

\* A tick after 14:00 that skipped the daily-fetch step after a daily fetch
\* had succeeded, although tomorrow's prices are not in the store.
C8_Witness ==
    /\ daily_ok = 1
    /\ status.latest_data_fetched
    /\ tick.op = "tick"
    /\ tick.daily = "none"
    /\ Hour(now) >= FETCH_HOUR
    /\ ~CheckIfTomorrowPricesExist(store, now)

\* C9: a tick that finds the price it observed last applies no policy and
\* writes no command; a tick that finds another price and whose control step
\* does not raise ends with that price as current_price.
C9_ControlOnlyOnPriceChange ==
    (tick.op = "tick" /\ tick.found # NotFound) =>
        /\ tick.found = tick.pre_price =>
             /\ ~tick.policy
             /\ ctl = NoCtl
             /\ status.current_price = tick.pre_price
             /\ status.car_charging = tick.pre_charging
        /\ (tick.found # tick.pre_price /\ ~tick.raised) =>
             /\ tick.policy
             /\ status.current_price = tick.found

\* A tick found the price below the threshold a second time while charging.
C9_Witness ==
    /\ tick.op = "tick"
    /\ tick.found # NotFound
    /\ tick.found = tick.pre_price
    /\ tick.pre_charging = Some(TRUE)
    /\ AllRecorded(CHARGE_TALKER, TRUE)

\* C10: a control step that raised leaves current_price and car_charging as
\* they were before the tick and the loop goes on to its sleep; the next
\* lookup that finds the same price applies the policy again.
C10_FailedControlIsRetried ==
    /\ []((tick.op = "tick" /\ tick.raised) =>
            /\ status.current_price = tick.pre_price
            /\ status.car_charging = tick.pre_charging
            /\ failed_price = tick.found
            /\ pc = "sleep")
    /\ [][(/\ failed_price # None
           /\ tick'.op = "tick"
           /\ tick'.found = failed_price) => tick'.policy]_vars

\* The turn-on that follows one that raised at the third pin.
C10_Witness ==
    /\ tick.op = "tick"
    /\ tick.policy
    /\ ~tick.raised
    /\ ctl.op = "turn_on_all_pins"
    /\ ctl.pre[CHARGE_TALKER][1]
    /\ ~ctl.pre[CHARGE_TALKER][3]
    /\ status.car_charging = Some(TRUE)

\* The pins of the commands an operation wrote, in the order it wrote them.
SentPins == [i \in 1..Len(ctl.sent) |-> ctl.sent[i].pin]

\* C18: turn_on_all_pins(d) and turn_off_all_pins(d) write their commands to
\* d in ascending order of the pins; when the command for pin k raises, no
\* command for a pin from k on is written, the call raises, every pin written
\* before k is recorded as switched and every other pin as it was.
C18_AllPinsOrderAndAbort ==
    ctl.op \in {"turn_on_all_pins", "turn_off_all_pins"} =>
        LET d == ctl.talker
            n == Len(ctl.sent)
            value == (ctl.op = "turn_on_all_pins")
        IN  /\ \A i \in 1..n : ctl.sent[i].talker = d
            /\ \A i, j \in 1..n : i < j => SentPins[i] < SentPins[j]
            /\ \A e \in Devices \ {d} : pin_states[e] = ctl.pre[e]
            /\ ctl.raised =>
                 /\ ctl.failed # None
                 /\ \A i \in 1..n : SentPins[i] < ctl.failed[1].pin
                 /\ d \in Devices =>
                      \A p \in Pins :
                        pin_states[d][p] =
                          IF \E i \in 1..n : SentPins[i] = p
                          THEN value ELSE ctl.pre[d][p]

\* An all-on of talker 1 whose third write raised: pins 1 and 2 were off,
\* are on now, and pin 3 is off.
C18_Witness ==
    /\ ctl.op = "turn_on_all_pins"
    /\ ctl.talker = 1
    /\ ctl.raised
    /\ ctl.link_failed
    /\ SentPins = <<1, 2>>
    /\ ~ctl.pre[1][1]
    /\ pin_states[1][1]
    /\ pin_states[1][2]
    /\ ~pin_states[1][3]

\* C19 speaks of a clean_up in which turning off the pins of one talker
\* raises.  No clean_up raises: whatever the links do and whatever is
\* recorded, it writes no command.
CleanUpNeverRaises ==
    ctl.op = "clean_up" => (~ctl.raised /\ ctl.sent = <<>>)

\* C20: every controller operation called with a talker id that is not one
\* of the controller's raises for the unknown id, writes nothing and leaves
\* every recorded pin state as it was.
C20_UnknownTalkerRejected ==
    (ctl.op \notin {"none", "clean_up"} /\ ctl.talker \notin Devices) =>
        /\ ctl.raised
        /\ ctl.key_error
        /\ ctl.sent = <<>>
        /\ pin_states = ctl.pre

\* The store has no row for the current quarter-hour.
NoRowForNow ==
    \A r \in store : r.timestamp # GetCurrentQuarterTimestamp(now)

\* The tick has made its lookup.
LookedUp == tick.op = "tick" /\ tick.daily \notin {"await", "crashed"}

\* C11 as stated: a tick that does not find the price of the current
\* quarter-hour attempts exactly one fetch-and-save, the one of its
\* not-found branch.
C11_MissingPriceOneFetch ==
    (pc = "recovery_await" /\ LookedUp /\ NoRowForNow) =>
        tick.daily \notin {"ok", "failed"}

\* C11, amended: a tick whose lookup finds no row for the current
\* quarter-hour goes to the fetch-and-save of its not-found branch without a
\* controller call and with the pin states, car_charging and current_price it
\* started with; that branch makes one fetch-and-save and goes to the sleep,
\* again changing none of them.  It comes after the fetch-and-save of the
\* daily-fetch step when that step ran and failed in the same tick.
C11_MissingPriceFailSafe ==
    /\ []((LookedUp /\ NoRowForNow) =>
            /\ pc = "recovery_await"
            /\ tick.found = NotFound
            /\ ~tick.policy
            /\ ctl = NoCtl
            /\ status.current_price = tick.pre_price
            /\ status.car_charging = tick.pre_charging)
    /\ [][pc' = "recovery_await" =>
            /\ pin_states' = pin_states
            /\ status'.current_price = status.current_price
            /\ status'.car_charging = status.car_charging
            /\ (pc # "recovery_await" => ctl' = NoCtl)]_vars
    /\ [][(pc = "recovery_await" /\ pc' # "recovery_await") =>
            /\ pc' = "sleep"
            /\ tick'.op = "recovery"
            /\ ctl' = NoCtl
            /\ pin_states' = pin_states
            /\ status' = status]_vars

\* While charging, a tick finds no row for the new quarter-hour: the pins
\* stay on.
C11_Witness ==
    /\ pc = "recovery_await"
    /\ LookedUp
    /\ NoRowForNow
    /\ store # {}
    /\ status.car_charging = Some(TRUE)
    /\ AllRecorded(CHARGE_TALKER, TRUE)

\* stop() has been called.
Stopped == shutdown /\ ~status.is_running

\* C12: once stop() has set is_running false the loop starts no iteration;
\* a fetch in flight returns to the task, which finishes the iteration and
\* goes to its sleep; from the sleep the task ends; and the task does end.
C12_StopEndsLoop ==
    /\ [][Stopped => tick'.daily \notin {"await", "crashed"}]_vars
    /\ [][(Stopped /\ pc \in {"top", "sleep"} /\ pc' # pc) => pc' = "done"]_vars
    /\ [][(Stopped /\ pc \in {"daily_await", "recovery_await"} /\ pc' # pc) =>
            pc' \in {"sleep", "recovery_await"}]_vars
    /\ [][(pc \in {"done", "crashed"}) => UNCHANGED pc]_vars
    /\ Stopped ~> (pc \in {"done", "crashed"})

\* The task ended after a stop() that came while the daily fetch was in
\* flight: the fetch returned and its iteration was finished.
C12_Witness ==
    /\ Stopped
    /\ pc = "done"
    /\ daily_ok >= 1

(***************************************************************************)
(* save_electricity_prices_to_db.                                           *)
(***************************************************************************)
\* The last call was given one series and found the table empty.
OneSeriesEmptyStore ==
    /\ ingest.op = "save"
    /\ ingest.pre = <<>>
    /\ Len(ingest.input) = 1

\* The price of the last point of pts at or before the position.
CarriedPrice(pts, position) ==
    LET k == CHOOSE k \in 1..Len(pts) :
                 /\ pts[k].position <= position
                 /\ \A m \in 1..Len(pts) :
                        pts[m].position <= position => m <= k
    IN  pts[k].price_amount

\* C13: for one series of ascending positions and an empty table, the rows
\* the function builds are one for each position from the first to the last
\* of the series, in that order; the row of a position of the series has
\* that point's price, the row of a missing position has the price of the
\* last point before it; the rows are the table when the commit succeeds;
\* the positions 1, 2, 4 with the prices 10, 10, 8 give four rows, the
\* third with the price 10.
C13_GapsCarryForward ==
    OneSeriesEmptyStore =>
        LET pts == ingest.input[1].points
            day == ingest.input[1].day
            first == pts[1].position
            last == pts[Len(pts)].position
        IN  /\ Len(ingest.new) = last - first + 1
            /\ \A j \in 1..Len(ingest.new) :
                   ingest.new[j] =
                       [timestamp |-> PositionToTimestamp(first + j - 1, day),
                        price_amount_mwh_eur |->
                            CarriedPrice(pts, first + j - 1)]
            /\ ~ingest.raised => table = ingest.new
            /\ (pts = PointsAt({1, 2, 4}) /\ ~ingest.raised) =>
                   /\ Len(table) = 4
                   /\ table[3].price_amount_mwh_eur = 1000

C13_Witness ==
    /\ OneSeriesEmptyStore
    /\ ingest.input[1].points =
           <<[position |-> 1, price_amount |-> 1000],
             [position |-> 2, price_amount |-> 1000],
             [position |-> 4, price_amount |-> 800]>>
    /\ ~ingest.raised
    /\ Len(table) = 4
    /\ table[3] = [timestamp |-> <<0, 1, 30>>, price_amount_mwh_eur |-> 1000]
    /\ table[4] = [timestamp |-> <<0, 1, 45>>, price_amount_mwh_eur |-> 800]

\* The quarter-hour after a timestamp.
NextQuarter(t) ==
    IF t[3] < 45 THEN <<t[1], t[2], t[3] + 15>>
    ELSE IF t[2] < 23 THEN <<t[1], t[2] + 1, 0>>
    ELSE <<t[1] + 1, 0, 0>>

\* The points are those of the positions 1..N, in that order.
Contiguous(pts) == \A i \in 1..Len(pts) : pts[i].position = i

C15_OneRowPerTimestamp ==
    \A i, j \in 1..Len(table) :
        i # j => table[i].timestamp # table[j].timestamp

\* C16: no row the function builds has a timestamp that a row of the table
\* had when the call began; and a call with the response of the call before
\* it, when that call returned, builds no row, leaves the table as it is
\* and raises nothing.
C16_SecondIngestionNoOp ==
    /\ [](\A j \in 1..Len(ingest.new) :
             \A k \in 1..Len(ingest.pre) :
                 ingest.pre[k].timestamp # ingest.new[j].timestamp)
    /\ [][(/\ ingest.op = "save"
           /\ ~ingest.raised
           /\ ingest'.input = ingest.input)
              => (/\ table' = table
                  /\ ingest'.new = <<>>
                  /\ ~ingest'.raised)]_vars

\* The second of two calls with one response: the table is what the first
\* call made of the empty table.
C16_Witness ==
    /\ ingest.op = "save"
    /\ ingest.pre # <<>>
    /\ ingest.pre = NewRowsToDb(ingest.input, <<>>)
    /\ ingest.new = <<>>
    /\ ~ingest.raised
    /\ table = ingest.pre
    /\ Len(table) >= 3

\* C17: when the store fails on a row of the batch, the call raises and the
\* table is what it was when the call began.
C17_BatchAllOrNothing ==
    ingest.store_failed => (ingest.raised /\ table = ingest.pre)

C17_Witness ==
    /\ ingest.store_failed
    /\ ingest.raised
    /\ ingest.pre # <<>>
    /\ Len(ingest.new) >= 2
    /\ table = ingest.pre

(***************************************************************************)
(* Talker.                                                                  *)
(***************************************************************************)
\* C21: verify_connection returns True exactly when the read got a reply
\* before its timeout.
C21_VerifyReflectsDevice ==
    link.last.op = "verify" =>
        (link.last.result = Some(TRUE) <=> link.last.line_of # None)

\* C28: the line send_to_pico reads, when it reads one, is the reply the
\* remote wrote for the command of this call.
C28_ReplyPairedWithCommand ==
    (link.last.op = "send" /\ link.last.line_of # None) =>
        link.last.line_of = Some(link.last.cmd)

C23_LeadingGapTolerated ==
    (OneSeriesEmptyStore /\ ingest.input[1].points[1].position > 1) =>
        LET pts == ingest.input[1].points
            day == ingest.input[1].day
            first == pts[1].position
            last == pts[Len(pts)].position
        IN  /\ \A q \in 1..(first - 1) :
                   ~Exists(ingest.new, PositionToTimestamp(q, day))
            /\ \A k \in 1..Len(pts) :
                   \E j \in 1..Len(ingest.new) :
                       ingest.new[j] =
                           [timestamp |->
                                PositionToTimestamp(pts[k].position, day),
                            price_amount_mwh_eur |-> pts[k].price_amount]
            /\ Len(ingest.new) = last - first + 1
            /\ ingest.raised => ingest.store_failed

C23_Witness ==
    /\ OneSeriesEmptyStore
    /\ ingest.input[1].points =
           <<[position |-> 2, price_amount |-> 1000],
             [position |-> 4, price_amount |-> 800]>>
    /\ ~ingest.raised
    /\ Len(table) = 3
    /\ table[1].timestamp = <<0, 1, 15>>
    /\ table[2] = [timestamp |-> <<0, 1, 30>>, price_amount_mwh_eur |-> 1000]

\* C29: the loop, once entered, comes to its end.
C29_ScanTerminates == (scan.op = "scan") ~> ScanDone

\* At the index of the loop stands a point whose position is not greater
\* than that of the point before it.
ScanStuck ==
    /\ scan.op = "scan"
    /\ ~ScanDone
    /\ scan.st.i > 1
    /\ scan.st.last_valid_price_amount # None
    /\ scan.st.points[scan.st.i].position
           <= scan.st.points[scan.st.i - 1].position

\* Once such a point stands at the index, every pass inserts a point before
\* it and leaves the index where it is.
ScanStuckForever ==
    [][ScanStuck => (ScanStuck' /\ scan'.st.i = scan.st.i)]_vars

(***************************************************************************)
(* The flags of the daily fetch.                                            *)
(***************************************************************************)
\* C24: a tick in the first quarter of the day leaves latest_data_fetched
\* and new_data_should_be_available false; before 14:00 both are false on
\* every day; a tick at or after 14:00 that does not enter the daily-fetch
\* step finds latest_data_fetched true, and one that is suspended in the
\* feed's request, or whose fetch failed, or that an exception of the
\* daily-fetch step ended, has new_data_should_be_available true; the first
\* tick of a day at or after 14:00 calls the feed, finds tomorrow's prices
\* stored, or ends with the exception of the daily-fetch step.
C24_DailyWindowReopens ==
    /\ []((tick.op = "tick" /\ tick.window) =>
             (/\ ~status.latest_data_fetched
              /\ ~status.new_data_should_be_available))
    /\ [](Hour(now) < FETCH_HOUR =>
             (/\ ~status.latest_data_fetched
              /\ ~status.new_data_should_be_available))
    /\ []((tick.op = "tick" /\ Hour(now) >= FETCH_HOUR) =>
             (/\ tick.daily = "none" => status.latest_data_fetched
              /\ tick.daily \in {"await", "failed", "crashed"} =>
                     (/\ status.new_data_should_be_available
                      /\ ~status.latest_data_fetched)))
    /\ [][(Hour(now) < FETCH_HOUR /\ Hour(now') >= FETCH_HOUR) =>
             tick'.daily \in {"await", "exists", "crashed"}]_vars

\* On a later day than the first the loop is suspended in the feed's request
\* of the daily fetch.
C24_Witness ==
    /\ Today(now) >= 1
    /\ Hour(now) >= FETCH_HOUR
    /\ pc = "daily_await"
    /\ tick.daily = "await"
    /\ status.new_data_should_be_available
    /\ ~status.latest_data_fetched

\* C30: latest_data_fetched and new_data_should_be_available are never
\* both true.
C30_NeverCompletedAndDue ==
    ~(status.latest_data_fetched /\ status.new_data_should_be_available)

\* A daily fetch has succeeded.
C30_Witness ==
    /\ tick.op = "tick"
    /\ tick.daily = "ok"
    /\ status.latest_data_fetched
    /\ ~status.new_data_should_be_available
    /\ Hour(now) >= FETCH_HOUR

(***************************************************************************)
(* The recorded pins.                                                       *)
(***************************************************************************)
\* C25: get_pin_state(d, p) of a talker d of the controller returns the
\* state recorded for the pin, which is that of the last command for it
\* that succeeded.
C25_GetPinStateLastKnown ==
    (ctl.op = "get_pin_state" /\ ctl.talker \in Devices) =>
        ctl.result = Some(pin_states[ctl.talker][ctl.pin])

\* C26: after a tick whose control step returned, car_charging is True only
\* with all pins of talker 1 recorded on, and False only with all of them
\* recorded off.
C26_FlagAgreesWithPins ==
    (tick.op = "tick" /\ tick.policy /\ ~tick.raised) =>
        /\ status.car_charging = Some(TRUE) =>
               AllRecorded(CHARGE_TALKER, TRUE)
        /\ status.car_charging = Some(FALSE) =>
               AllRecorded(CHARGE_TALKER, FALSE)

\* stop() has returned: is_running is False and every port is closed.
Released ==
    /\ shutdown
    /\ ~status.is_running
    /\ \A d \in Devices : ~serial_open[d]

\* C27: after stop() has returned, the loop writes no command and calls no
\* write that raises.
C27_NoCommandAfterStop ==
    (Released /\ ctl.op # "clean_up") =>
        (ctl.sent = <<>> /\ ~ctl.link_failed)

====
